---- MODULE Spec2Model ----
(***************************************************************************)
(* A model of update.py, the Kodi add-on repository builder.               *)
(*                                                                         *)
(* The main program starts one thread per add-on source, each running      *)
(* fetch(addonPath, datadir, result); it then joins the threads in list    *)
(* order, appends every result to the catalog root and writes              *)
(* addons.xml.gz and its checksum.                                         *)
(*                                                                         *)
(* Strings the code inspects character by character (the id and version    *)
(* attributes, the part of a URL after the colon, folder names) are        *)
(* sequences of one-character strings.  File names the code only compares  *)
(* or looks up are TLA+ strings.  A file's content is a token (a positive  *)
(* number); 0 stands for "no such file".                                   *)
(*                                                                         *)
(* Left out, as the program text leaves them to others: the Windows-only   *)
(* TexturePacker block (lines 157-173), argument parsing and the README    *)
(* scan (lines 251-275).  The interpreter is Python 3.                     *)
(***************************************************************************)
EXTENDS Naturals, Sequences, FiniteSets, TLC

VARIABLES
    sources,    \* args.addonPaths: one source per thread, fixed for a run
    repo,       \* the identifier folders below datadir
    pc,         \* where each fetch thread stands
    local,      \* fetch's local variables, per thread
    temps,      \* the mkdtemp folders that exist, as <<thread, which>>
    result,     \* the result list each thread's closure captured
    started,    \* threads whose start() was called
    mainPc,     \* where the main program stands
    joined,     \* threads the join loop is through with
    addonsXml,  \* the children of the catalog root element
    catalog,    \* addons.xml.gz and addons.xml.gz.md5
    output,     \* the lines printed
    infoIn,     \* a descriptor handed to getAddonInfo on its own
    infoOut     \* what getAddonInfo made of infoIn

vars == <<sources, repo, pc, local, temps, result, started, mainPc, joined,
          addonsXml, catalog, output, infoIn, infoOut>>

-----------------------------------------------------------------------------
(* Bounds *)

NumSources == 2
MaxIdLen == 2
MaxVersionLen == 6

Threads == 1..NumSources

-----------------------------------------------------------------------------
(* Characters and attributes *)

LowerLetters ==
    {"a", "b", "c", "d", "e", "f", "g", "h", "i", "j", "k", "l", "m",
     "n", "o", "p", "q", "r", "s", "t", "u", "v", "w", "x", "y", "z"}

Digits == {"0", "1", "2", "3", "4", "5", "6", "7", "8", "9"}

\* The characters outside the negated class [^a-z0-9._-] of line 86.
IdChars == LowerLetters \cup Digits \cup {".", "_", "-"}

\* An XML attribute: Element.get returns None when it is absent.
Attr(chars) == [present |-> TRUE, val |-> chars]
NoAttr == [present |-> FALSE, val |-> <<>>]

SeqsUpTo(S, n) == UNION {[1..k -> S] : k \in 0..n}

-----------------------------------------------------------------------------
(* getAddonInfo, lines 81-94 *)

\* re.search("[^a-z0-9._-]", addonId): some character is outside the class.
HasInvalidIdChar(chars) == \E i \in 1..Len(chars) : chars[i] \notin IdChars

\* The end of the longest run of digits of s that starts at position i
\* (i - 1 when s[i] is no digit): what a greedy \d+ consumes.
RECURSIVE DigitsEnd(_, _)
DigitsEnd(s, i) ==
    IF i <= Len(s) /\ s[i] \in Digits THEN DigitsEnd(s, i + 1) ELSE i - 1

\* re.match(r"(\d+\.\d+\.\d+).*", s): the end of group 1, or 0 for no match.
\* A digit run is always followed by a literal dot or the end of the group,
\* so backtracking into a shorter run never helps.
VersionMatchEnd(s) ==
    LET e1 == DigitsEnd(s, 1)
        e2 == DigitsEnd(s, e1 + 2)
        e3 == DigitsEnd(s, e2 + 2)
    IN  IF /\ e1 >= 1
           /\ e1 + 1 <= Len(s) /\ s[e1 + 1] = "."
           /\ e2 >= e1 + 2
           /\ e2 + 1 <= Len(s) /\ s[e2 + 1] = "."
           /\ e3 >= e2 + 2
        THEN e3
        ELSE 0

NoInfo == [ok |-> FALSE, id |-> <<>>, version |-> <<>>]

\* A missing id passes the `is None` test into the raise, whose string
\* concatenation with None raises as well; a missing version makes re.match
\* raise inside the try.  Either way the call ends with an exception.
getAddonInfo(addonXml) ==
    LET end == IF addonXml.version.present
               THEN VersionMatchEnd(addonXml.version.val) ELSE 0
    IN  IF ~addonXml.id.present \/ HasInvalidIdChar(addonXml.id.val) THEN NoInfo
        ELSE IF end = 0 THEN NoInfo
        ELSE [ok |-> TRUE, id |-> addonXml.id.val,
              version |-> SubSeq(addonXml.version.val, 1, end)]

-----------------------------------------------------------------------------
(* Files, archives and the sources of a run *)

IdA == <<"a">>
IdB == <<"b">>
V100 == <<"1", ".", "0", ".", "0">>
V200 == <<"2", ".", "0", ".", "0">>

\* What xml.etree.ElementTree.parse(...).getroot() yields for the content
\* tokens that are descriptors; every other token is not a descriptor.
DocTable ==
    << [id |-> Attr(IdA), version |-> Attr(V100)],
       [id |-> Attr(IdB), version |-> Attr(V200 \o <<"b">>)],
       [id |-> Attr(IdA), version |-> Attr(<<"x">>)],
       [id |-> Attr(<<"A">>), version |-> Attr(V100)] >>

IsXml(content) == content \in DOMAIN DocTable

\* A file of a folder tree or a member of an archive: the folders above it,
\* its name and its content.
File(dir, name, content) == [dir |-> dir, name |-> name, content |-> content]

\* "%s-%s%s" % (name, version, Dot + fileType), line 98.  The file type is
\* told by the folder slot the name is used in (zips, or versioned
\* changelogs).
getNameVersionFileName(name, version) == [stem |-> name, ver |-> version]

NoName == [stem |-> <<>>, ver |-> <<>>]
OtherZipName == [stem |-> <<"x">>, ver |-> <<>>]

AddonXml == "addon.xml"
changelogFileName == "changelog.txt"
addonInfoFileNames == <<AddonXml, "icon.png", "fanart.jpg", changelogFileName>>

NoSource ==
    [kind |-> "none", tree |-> <<>>, zname |-> NoName, members |-> <<>>,
     subpath |-> NoAttr, branch |-> FALSE]

\* A local folder holding add-on a 1.0.0.
DirA ==
    [NoSource EXCEPT
        !.kind = "dir",
        !.tree = << File(<<>>, AddonXml, 1),
                    File(<<>>, changelogFileName, 6),
                    File(<<>>, "icon.png", 5),
                    File(<< <<"l">> >>, "main.py", 7) >>]

\* A local folder whose descriptor has an invalid version.
DirBadVersion ==
    [NoSource EXCEPT !.kind = "dir", !.tree = << File(<<>>, AddonXml, 3) >>]

\* The top level of datadir and what lies below it besides the identifier
\* folders: the repository is itself add-on b 2.0.0b.
RootTree ==
    << File(<<>>, AddonXml, 2),
       File(<<>>, "icon.png", 5),
       File(<<>>, "README.md", 7),
       File(<<>>, "update.py", 7),
       File(<< <<"t">> >>, "notes.txt", 7) >>

\* addonPath is datadir.
RootDir == [NoSource EXCEPT !.kind = "root", !.tree = RootTree]

\* An archive outside datadir with two descriptors: x/addon.xml and
\* a/addon.xml.
ZipTwoDescriptors ==
    [NoSource EXCEPT
        !.kind = "zip",
        !.zname = OtherZipName,
        !.members = << File(<< <<"x">> >>, AddonXml, 1),
                       File(<<IdA>>, AddonXml, 3),
                       File(<<IdA>>, changelogFileName, 6) >>]

\* An archive outside datadir without any descriptor.
ZipNoDescriptor ==
    [NoSource EXCEPT
        !.kind = "zip",
        !.zname = OtherZipName,
        !.members = << File(<<IdA>>, "icon.png", 5) >>]

\* Url#Branch:/s, a Git repository with add-on a 1.0.0 in its folder s.
UrlSource ==
    [NoSource EXCEPT
        !.kind = "url",
        !.branch = TRUE,
        !.subpath = Attr(<<"/", "s">>),
        !.tree = << File(<<>>, "README.md", 7),
                    File(<< <<"s">> >>, AddonXml, 1),
                    File(<< <<"s">> >>, changelogFileName, 6) >>]

\* A local folder holding add-on a 1.0.0 with a backup copy of its icon and
\* no icon.png.
DirSuffixed ==
    [NoSource EXCEPT
        !.kind = "dir",
        !.tree = << File(<<>>, AddonXml, 1),
                    File(<<>>, "icon.png.bak", 5) >>]

\* An archive outside datadir whose only descriptor, of add-on a 1.0.0, lies
\* in its folder x.
ZipNestedDescriptor ==
    [NoSource EXCEPT
        !.kind = "zip",
        !.zname = OtherZipName,
        !.members = << File(<< <<"x">> >>, AddonXml, 1),
                       File(<< <<"x">> >>, "icon.png", 5) >>]

\* Url:st, a Git repository with add-on a 1.0.0 in its folder st, written as
\* in the example of the module docstring (no slash after the colon).
UrlPlain ==
    [NoSource EXCEPT
        !.kind = "url",
        !.subpath = Attr(<<"s", "t">>),
        !.tree = << File(<<>>, "README.md", 7),
                    File(<< <<"s", "t">> >>, AddonXml, 1) >>]

\* An archive x.zip outside datadir holding add-on a 1.0.0 in its folder a.
ZipPlain ==
    [NoSource EXCEPT
        !.kind = "zip",
        !.zname = OtherZipName,
        !.members = << File(<<IdA>>, AddonXml, 1),
                       File(<<IdA>>, "icon.png", 5) >>]

\* A local folder holding add-on a 1.0.0 and, listed before its addon.xml, a
\* file addon-xml that is a descriptor with the id A.
DirShadowed ==
    [NoSource EXCEPT
        !.kind = "dir",
        !.tree = << File(<<>>, "addon-xml", 4),
                    File(<<>>, AddonXml, 1) >>]

SourceKinds ==
    {DirA, DirBadVersion, RootDir, ZipTwoDescriptors, ZipNoDescriptor,
     UrlSource, NoSource}

\* Sources with less usual layouts, run next to the plain folder of add-on a.
OddSourceKinds ==
    {DirA, DirSuffixed, ZipNestedDescriptor, UrlPlain, ZipPlain,
     DirShadowed}

AllIds == {IdA, IdB}
AllVersions == {V100, V200}
AllZipNames ==
    {getNameVersionFileName(IdA, V100), getNameVersionFileName(IdB, V200),
     OtherZipName}
AuxNames == {addonInfoFileNames[i] : i \in DOMAIN addonInfoFileNames}

\* A file slot for an archive: whether it is there, its members in
\* namelist() order, and how often the run has written it.
NoZip == [there |-> FALSE, members |-> <<>>, writes |-> 0]
NoChecksum == [there |-> FALSE, of |-> <<>>]

NoFolder ==
    [exists |-> FALSE,
     zips |-> [n \in AllZipNames |-> NoZip],
     md5 |-> [n \in AllZipNames |-> NoChecksum],
     aux |-> [f \in AuxNames |-> 0],
     clog |-> [v \in AllVersions |-> 0]]

\* datadir before the run: empty, or holding what was left there for add-on a
\* before (x.zip with its checksum, and the changelog of 1.0.0).
EmptyRepo == [i \in AllIds |-> NoFolder]

OldRepo ==
    [EmptyRepo EXCEPT
        ![IdA] = [NoFolder EXCEPT
            !.exists = TRUE,
            !.zips[OtherZipName] =
                [there |-> TRUE,
                 members |-> << File(<<IdA>>, AddonXml, 1) >>,
                 writes |-> 0],
            !.md5[OtherZipName] =
                [there |-> TRUE, of |-> << File(<<IdA>>, AddonXml, 1) >>],
            !.clog[V100] = 8]]

RepoStates == {EmptyRepo, OldRepo}

-----------------------------------------------------------------------------
(* Helpers of fetch *)

Min(S) == CHOOSE x \in S : \A y \in S : x <= y

IsSuffix(a, b) ==
    Len(a) <= Len(b) /\ SubSeq(b, Len(b) - Len(a) + 1, Len(b)) = a

\* Whether the file name starts with fileName, for the file names that occur
\* in the archives of this model (Python's `in` on the joined path).
NameStartsWith(name, fileName) ==
    \/ name = fileName
    \/ name \in {"icon.png.bak"} /\ fileName = "icon.png"

\* addonXmlRegExp = re.compile(".*/" + AddonXml + '$', re.I), matched against
\* a member path: at least one folder, then a name that is addon.xml up to
\* letter case (the dot of the pattern matches any character).
MatchesAddonXmlRegExp(member) ==
    /\ Len(member.dir) >= 1
    /\ member.name \in {"addon.xml", "Addon.xml", "ADDON.XML", "addon-xml"}

\* next(filePath for filePath in namelist() if addonXmlRegExp.match(filePath)):
\* the position of the first match, 0 when next() raises StopIteration.
FirstDescriptor(members) ==
    LET hits == {i \in 1..Len(members) : MatchesAddonXmlRegExp(members[i])}
    IN  IF hits = {} THEN 0 ELSE Min(hits)

\* addonId + '/' + addonFileName in fileName, line 219: the text is found
\* across one slash of the member path, so the id ends the folder left of
\* that slash and the file name starts what is right of it.  (No folder of
\* this model is named like an auxiliary file.)
PathContains(member, addonId, fileName) ==
    LET n == Len(member.dir)
    IN  /\ n >= 1
        /\ IsSuffix(addonId, member.dir[n])
        /\ NameStartsWith(member.name, fileName)

\* ZipFile.getinfo(addonId + '/' + fileName): the position of the member of
\* exactly that path, 0 when there is none (extract raises KeyError).
ExactMember(members, addonId, fileName) ==
    LET hits == {i \in 1..Len(members) :
                    /\ members[i].dir = <<addonId>>
                    /\ members[i].name = fileName}
    IN  IF hits = {} THEN 0 ELSE Min(hits)

\* The loop of lines 217-220 from file name i on: the auxiliary files of the
\* identifier folder afterwards, and whether an extract raised.
RECURSIVE ExtractAll(_, _, _, _)
ExtractAll(i, members, addonId, aux) ==
    IF i > Len(addonInfoFileNames) THEN [aux |-> aux, raised |-> FALSE]
    ELSE LET name == addonInfoFileNames[i]
             wanted == \E k \in 1..Len(members) :
                           PathContains(members[k], addonId, name)
             at == ExactMember(members, addonId, name)
         IN  IF ~wanted THEN ExtractAll(i + 1, members, addonId, aux)
             ELSE IF at = 0 THEN [aux |-> aux, raised |-> TRUE]
             ELSE ExtractAll(i + 1, members, addonId,
                             [aux EXCEPT ![name] = members[at].content])

\* addonRelativeFolderPath[1:] when the reference has a non-empty part after
\* the colon (lines 146-147), the clone's root otherwise.
RelativeFolder(subpath) ==
    IF subpath.present /\ subpath.val # <<>> THEN Tail(subpath.val) ELSE <<>>

RECURSIVE FilesBelow(_, _)
FilesBelow(tree, folder) ==
    IF tree = <<>> THEN <<>>
    ELSE LET e == Head(tree)
             rest == FilesBelow(Tail(tree), folder)
         IN  IF e.dir # <<>> /\ e.dir[1] = folder
             THEN <<File(Tail(e.dir), e.name, e.content)>> \o rest
             ELSE rest

\* os.path.isdir(addonPath) at line 149.
IsDir(source) ==
    CASE source.kind \in {"dir", "root"} -> TRUE
      [] source.kind = "url" ->
            \/ RelativeFolder(source.subpath) = <<>>
            \/ FilesBelow(source.tree, RelativeFolder(source.subpath)) # <<>>
      [] OTHER -> FALSE

\* The files os.walk(addonPath) yields, top folder first, with their paths
\* relative to addonPath.
Walk(source) ==
    IF source.kind = "url" /\ RelativeFolder(source.subpath) # <<>>
    THEN FilesBelow(source.tree, RelativeFolder(source.subpath))
    ELSE source.tree

\* The content of the file of that name at the top of a tree, 0 if none.
TopFile(tree, name) ==
    LET hits == {i \in 1..Len(tree) : tree[i].dir = <<>> /\ tree[i].name = name}
    IN  IF hits = {} THEN 0 ELSE tree[Min(hits)].content

\* A test that never takes addonPath for datadir.
IsDatadirNever(source) == FALSE

\* addonPath == datadir, line 183.
IsDatadir(source) == source.kind = "root"

RECURSIVE WhitelistMembers(_, _, _)
WhitelistMembers(i, tree, addonId) ==
    IF i > Len(addonInfoFileNames) THEN <<>>
    ELSE LET name == addonInfoFileNames[i]
             rest == WhitelistMembers(i + 1, tree, addonId)
         IN  IF TopFile(tree, name) # 0
             THEN <<File(<<addonId>>, name, TopFile(tree, name))>> \o rest
             ELSE rest

RECURSIVE WalkMembers(_, _)
WalkMembers(tree, addonId) ==
    IF tree = <<>> THEN <<>>
    ELSE <<File(<<addonId>> \o Head(tree).dir, Head(tree).name,
                Head(tree).content)>>
         \o WalkMembers(Tail(tree), addonId)

\* What lines 180-193 write into the new archive.
ZipMembers(source, addonId) ==
    IF IsDatadir(source)
    THEN WhitelistMembers(1, Walk(source), addonId)
    ELSE WalkMembers(Walk(source), addonId)

\* A build that does not look for the archive first.
ShouldBuildAlways(zip) == TRUE

\* not os.path.isfile(zipFilePath), line 179.
ShouldBuild(zip) == ~zip.there

\* The archive addonPath names at line 199.
ArchiveAt(t) ==
    IF local[t].inRepo
    THEN repo[local[t].zipDir].zips[local[t].zipName]
    ELSE [there |-> sources[t].kind = "zip",
          members |-> sources[t].members,
          writes |-> 0]

AddonPublisherResult(xml, exception) == [xml |-> xml, exception |-> exception]

-----------------------------------------------------------------------------
(* fetch, lines 130-236: one action per step on the shared datadir *)

Running(t) == t \in started /\ pc[t] # "done"

\* A fetch whose publishers share one result list, the first publisher's.
RaiseIntoSharedList(t, exception) ==
    /\ result' = [result EXCEPT
                      ![1] = Append(@, AddonPublisherResult(0, exception))]
    /\ pc' = [pc EXCEPT ![t] = "done"]

\* A fetch without the except clause: the exception ends the thread and
\* nothing is recorded.
RaiseUncaught(t, exception) ==
    /\ result' = result
    /\ pc' = [pc EXCEPT ![t] = "done"]

\* except Exception as exception: result.append(AddonPublisherResult(None,
\* exception)), lines 235-236.  The thread ends.
Raise(t, exception) ==
    /\ result' = [result EXCEPT
                      ![t] = Append(@, AddonPublisherResult(0, exception))]
    /\ pc' = [pc EXCEPT ![t] = "done"]

\* How git.Repo.clone_from and git.checkout may end for a remote reference.
CloneOutcomes(source) ==
    {"cloned", "clone fails"}
        \cup (IF source.branch THEN {"checkout fails"} ELSE {})

\* Lines 131-155: a remote reference is cloned into a fresh temporary
\* folder; a folder's descriptor is located and validated.  The finally of
\* lines 195-197 removes the clone when the descriptor is rejected.
FetchBegin(t) ==
    /\ Running(t) /\ pc[t] = "begin"
    /\ LET source == sources[t]
           isUrl == source.kind = "url"
           clone == IF isUrl THEN {<<t, "clone">>} ELSE {}
           content == TopFile(Walk(source), AddonXml)
           info == IF IsXml(content) THEN getAddonInfo(DocTable[content])
                   ELSE NoInfo
       IN  \E net \in CloneOutcomes(source) :
             /\ isUrl \/ net = "cloned"
             /\ IF net # "cloned"
                THEN \* raised before the inner try: nothing removes the clone
                     /\ temps' = temps \cup clone
                     /\ local' = [local EXCEPT ![t].tempFolder = "clone"]
                     /\ Raise(t, "GitCommandError")
                ELSE IF ~IsDir(source)
                THEN /\ temps' = temps \cup clone
                     /\ local' = [local EXCEPT
                            ![t].tempFolder = IF isUrl THEN "clone" ELSE "none",
                            ![t].zipName = source.zname]
                     /\ pc' = [pc EXCEPT ![t] = "archive"]
                     /\ UNCHANGED result
                ELSE IF ~info.ok
                THEN /\ temps' = temps
                     /\ local' = [local EXCEPT
                            ![t].tempFolder = IF isUrl THEN "clone" ELSE "none"]
                     /\ Raise(t, IF content = 0 THEN "IOError"
                                 ELSE "RuntimeError")
                ELSE /\ temps' = temps \cup clone
                     /\ local' = [local EXCEPT
                            ![t].tempFolder = IF isUrl THEN "clone" ELSE "none",
                            ![t].addonId = info.id,
                            ![t].addonVersion = info.version]
                     /\ pc' = [pc EXCEPT ![t] = "folder"]
                     /\ UNCHANGED result
    /\ UNCHANGED <<sources, repo, started, mainPc, joined, addonsXml, catalog,
                   output, infoIn, infoOut>>

\* createFolder(addonRepositoryFolder), lines 174-176.
FetchCreateFolder(t) ==
    /\ Running(t) /\ pc[t] = "folder"
    /\ repo' = [repo EXCEPT ![local[t].addonId].exists = TRUE]
    /\ pc' = [pc EXCEPT ![t] = "build"]
    /\ UNCHANGED <<sources, local, temps, result, started, mainPc, joined,
                   addonsXml, catalog, output, infoIn, infoOut>>

\* Lines 178-197: the archive is built unless it is there already; addonPath
\* becomes the archive; the finally removes the clone.
FetchBuildZip(t) ==
    /\ Running(t) /\ pc[t] = "build"
    /\ LET addonId == local[t].addonId
           zipFilePath == getNameVersionFileName(addonId, local[t].addonVersion)
           zip == repo[addonId].zips[zipFilePath]
       IN  /\ repo' = IF ShouldBuild(zip)
                      THEN [repo EXCEPT ![addonId].zips[zipFilePath] =
                               [there |-> TRUE,
                                members |-> ZipMembers(sources[t], addonId),
                                writes |-> zip.writes + 1]]
                      ELSE repo
           /\ local' = [local EXCEPT ![t].zipDir = addonId,
                                     ![t].zipName = zipFilePath,
                                     ![t].inRepo = TRUE]
    /\ temps' = temps \ {<<t, "clone">>}
    /\ pc' = [pc EXCEPT ![t] = "archive"]
    /\ UNCHANGED <<sources, result, started, mainPc, joined, addonsXml,
                   catalog, output, infoIn, infoOut>>

\* Lines 199-206: if addonPath is an archive, its first descriptor is
\* extracted into a fresh temporary folder and validated; the folder is
\* removed at line 206, which an exception skips.  A path that is neither a
\* folder nor an archive ends fetch without a result.
FetchOpenArchive(t) ==
    /\ Running(t) /\ pc[t] = "archive"
    /\ LET zip == ArchiveAt(t)
           at == FirstDescriptor(zip.members)
           content == IF at = 0 THEN 0 ELSE zip.members[at].content
           info == IF IsXml(content) THEN getAddonInfo(DocTable[content])
                   ELSE NoInfo
       IN  IF ~zip.there
           THEN /\ pc' = [pc EXCEPT ![t] = "done"]
                /\ UNCHANGED <<local, temps, result>>
           ELSE IF ~info.ok
           THEN /\ temps' = temps \cup {<<t, "scratch">>}
                /\ local' = [local EXCEPT ![t].tempFolder = "scratch"]
                /\ Raise(t, IF at = 0 THEN "StopIteration" ELSE "RuntimeError")
           ELSE /\ temps' = temps
                /\ local' = [local EXCEPT ![t].tempFolder = "scratch",
                                          ![t].addonId = info.id,
                                          ![t].addonVersion = info.version]
                /\ pc' = [pc EXCEPT ![t] = "copy"]
                /\ UNCHANGED result
    /\ UNCHANGED <<sources, repo, started, mainPc, joined, addonsXml, catalog,
                   output, infoIn, infoOut>>

\* os.stat(addonPath) != os.stat(addonRepositoryZipPath), line 210: the two
\* paths name one file.
SameFile(t) == local[t].inRepo /\ local[t].zipDir = local[t].addonId

\* Lines 207-212.  os.stat raises when addonRepositoryZipPath does not exist.
FetchCopyArchive(t) ==
    /\ Running(t) /\ pc[t] = "copy"
    /\ LET addonId == local[t].addonId
           name == local[t].zipName
           dest == repo[addonId].zips[name]
       IN  IF ~dest.there
           THEN /\ Raise(t, "FileNotFoundError")
                /\ UNCHANGED repo
           ELSE /\ repo' = IF SameFile(t) THEN repo
                           ELSE [repo EXCEPT
                                    ![addonId].exists = TRUE,
                                    ![addonId].zips[name] =
                                        [there |-> TRUE,
                                         members |-> ArchiveAt(t).members,
                                         writes |-> dest.writes + 1]]
                /\ pc' = [pc EXCEPT ![t] = "extract"]
                /\ UNCHANGED result
    /\ UNCHANGED <<sources, local, temps, started, mainPc, joined, addonsXml,
                   catalog, output, infoIn, infoOut>>

\* Lines 215-220: the auxiliary files are extracted below datadir.
FetchExtract(t) ==
    /\ Running(t) /\ pc[t] = "extract"
    /\ LET addonId == local[t].addonId
           zip == repo[addonId].zips[local[t].zipName]
           got == ExtractAll(1, zip.members, addonId, repo[addonId].aux)
       IN  /\ repo' = [repo EXCEPT ![addonId].aux = got.aux]
           /\ IF got.raised
              THEN Raise(t, "KeyError")
              ELSE /\ pc' = [pc EXCEPT ![t] = "changelog"]
                   /\ UNCHANGED result
    /\ UNCHANGED <<sources, local, temps, started, mainPc, joined, addonsXml,
                   catalog, output, infoIn, infoOut>>

\* A changelog step that renames over the versioned file.
RenameChangelogOver(folder, version) ==
    IF folder.aux[changelogFileName] = 0 THEN folder
    ELSE [folder EXCEPT !.clog[version] = folder.aux[changelogFileName],
                        !.aux[changelogFileName] = 0]

\* Lines 221-228: what the changelog step leaves of the identifier folder.
RenameChangelog(folder, version) ==
    IF folder.aux[changelogFileName] = 0 THEN folder
    ELSE IF folder.clog[version] # 0
    THEN [folder EXCEPT !.aux[changelogFileName] = 0]
    ELSE [folder EXCEPT !.clog[version] = folder.aux[changelogFileName],
                        !.aux[changelogFileName] = 0]

FetchChangelog(t) ==
    /\ Running(t) /\ pc[t] = "changelog"
    /\ repo' = [repo EXCEPT ![local[t].addonId] =
                    RenameChangelog(@, local[t].addonVersion)]
    /\ pc' = [pc EXCEPT ![t] = "checksum"]
    /\ UNCHANGED <<sources, local, temps, result, started, mainPc, joined,
                   addonsXml, catalog, output, infoIn, infoOut>>

\* writeChecksumFile, lines 121-127: the digest stands for the content it
\* was computed from.
writeChecksumFile(content) == [there |-> TRUE, of |-> content]

\* Line 230.
FetchChecksum(t) ==
    /\ Running(t) /\ pc[t] = "checksum"
    /\ LET addonId == local[t].addonId
           name == local[t].zipName
       IN  repo' = [repo EXCEPT ![addonId].md5[name] =
                       writeChecksumFile(repo[addonId].zips[name].members)]
    /\ pc' = [pc EXCEPT ![t] = "publish"]
    /\ UNCHANGED <<sources, local, temps, result, started, mainPc, joined,
                   addonsXml, catalog, output, infoIn, infoOut>>

\* A publish step that parses the descriptor without looking whether the
\* file is there.
FetchPublishUnguarded(t) ==
    /\ Running(t) /\ pc[t] = "publish"
    /\ LET content == repo[local[t].addonId].aux[AddonXml]
       IN  IF ~IsXml(content)
           THEN Raise(t, IF content = 0 THEN "FileNotFoundError"
                         ELSE "ParseError")
           ELSE /\ result' = [result EXCEPT
                       ![t] = Append(@, AddonPublisherResult(content, "none"))]
                /\ pc' = [pc EXCEPT ![t] = "remove"]
    /\ UNCHANGED <<sources, repo, local, temps, started, mainPc, joined,
                   addonsXml, catalog, output, infoIn, infoOut>>

\* Lines 231-233: the extracted descriptor, if there is one, is parsed and
\* appended as the result.
FetchPublish(t) ==
    /\ Running(t) /\ pc[t] = "publish"
    /\ LET content == repo[local[t].addonId].aux[AddonXml]
       IN  IF content = 0
           THEN /\ pc' = [pc EXCEPT ![t] = "done"]
                /\ UNCHANGED result
           ELSE IF ~IsXml(content)
           THEN Raise(t, "ParseError")
           ELSE /\ result' = [result EXCEPT
                       ![t] = Append(@, AddonPublisherResult(content, "none"))]
                /\ pc' = [pc EXCEPT ![t] = "remove"]
    /\ UNCHANGED <<sources, repo, local, temps, started, mainPc, joined,
                   addonsXml, catalog, output, infoIn, infoOut>>

\* os.remove(addonXmlPath), line 234.
FetchRemoveXml(t) ==
    /\ Running(t) /\ pc[t] = "remove"
    /\ LET addonId == local[t].addonId
       IN  IF repo[addonId].aux[AddonXml] = 0
           THEN /\ Raise(t, "FileNotFoundError")
                /\ UNCHANGED repo
           ELSE /\ repo' = [repo EXCEPT ![addonId].aux[AddonXml] = 0]
                /\ pc' = [pc EXCEPT ![t] = "done"]
                /\ UNCHANGED result
    /\ UNCHANGED <<sources, local, temps, started, mainPc, joined, addonsXml,
                   catalog, output, infoIn, infoOut>>

Fetch(t) ==
    \/ FetchBegin(t)
    \/ FetchCreateFolder(t)
    \/ FetchBuildZip(t)
    \/ FetchOpenArchive(t)
    \/ FetchCopyArchive(t)
    \/ FetchExtract(t)
    \/ FetchChangelog(t)
    \/ FetchChecksum(t)
    \/ FetchPublish(t)
    \/ FetchRemoveXml(t)

-----------------------------------------------------------------------------
(* fetch as one call: what a call that nothing else runs beside leaves *)

\* Lines 199-234 on the archive at addonPath, with the members and the file
\* name given; inRepo and zipDir say whether the archive lies in datadir
\* already, and in which folder.
ArchiveBranch(datadir, members, zname, inRepo, zipDir) ==
    LET at == FirstDescriptor(members)
        content == IF at = 0 THEN 0 ELSE members[at].content
        info == IF IsXml(content) THEN getAddonInfo(DocTable[content])
                ELSE NoInfo
        addonId == info.id
        dest == datadir[addonId].zips[zname]
        copied == IF inRepo /\ zipDir = addonId THEN datadir
                  ELSE [datadir EXCEPT
                           ![addonId].exists = TRUE,
                           ![addonId].zips[zname] =
                               [there |-> TRUE,
                                members |-> members,
                                writes |-> dest.writes + 1]]
        got == ExtractAll(1, copied[addonId].zips[zname].members, addonId,
                          copied[addonId].aux)
        extracted == [copied EXCEPT ![addonId].aux = got.aux]
        renamed == [extracted EXCEPT
                       ![addonId] = RenameChangelog(@, info.version)]
        summed == [renamed EXCEPT
                      ![addonId].md5[zname] =
                          writeChecksumFile(renamed[addonId].zips[zname].members)]
        xml == summed[addonId].aux[AddonXml]
        Failure(left, exception) ==
            [repo |-> left, result |-> <<AddonPublisherResult(0, exception)>>]
    IN  IF ~info.ok
        THEN Failure(datadir, IF at = 0 THEN "StopIteration"
                              ELSE "RuntimeError")
        ELSE IF ~dest.there THEN Failure(datadir, "FileNotFoundError")
        ELSE IF got.raised THEN Failure(extracted, "KeyError")
        ELSE IF xml = 0 THEN [repo |-> summed, result |-> <<>>]
        ELSE IF ~IsXml(xml) THEN Failure(summed, "ParseError")
        ELSE [repo |-> [summed EXCEPT ![addonId].aux[AddonXml] = 0],
              result |-> <<AddonPublisherResult(xml, "none")>>]

\* fetch(addonPath, datadir, result), lines 130-236, for a source and the
\* way its clone ends: datadir and the result list afterwards.
FetchAlone(source, datadir, net) ==
    LET content == TopFile(Walk(source), AddonXml)
        info == IF IsXml(content) THEN getAddonInfo(DocTable[content])
                ELSE NoInfo
        addonId == info.id
        zipFilePath == getNameVersionFileName(addonId, info.version)
        zip == datadir[addonId].zips[zipFilePath]
        built == [datadir EXCEPT
                     ![addonId].exists = TRUE,
                     ![addonId].zips[zipFilePath] =
                         IF ShouldBuild(zip)
                         THEN [there |-> TRUE,
                               members |-> ZipMembers(source, addonId),
                               writes |-> zip.writes + 1]
                         ELSE zip]
        Failure(exception) ==
            [repo |-> datadir,
             result |-> <<AddonPublisherResult(0, exception)>>]
    IN  IF source.kind = "url" /\ net # "cloned"
        THEN Failure("GitCommandError")
        ELSE IF IsDir(source)
        THEN IF ~info.ok
             THEN Failure(IF content = 0 THEN "IOError" ELSE "RuntimeError")
             ELSE ArchiveBranch(built, built[addonId].zips[zipFilePath].members,
                                zipFilePath, TRUE, addonId)
        ELSE IF source.kind = "zip"
        THEN ArchiveBranch(datadir, source.members, source.zname, FALSE, <<>>)
        ELSE [repo |-> datadir, result |-> <<>>]

-----------------------------------------------------------------------------
(* The main program, lines 286-309 *)

\* for addonPublisher in addonPublishers: thread.start(), lines 288-289.
StartThread ==
    /\ mainPc = "start"
    /\ LET t == Min(Threads \ started)
       IN  /\ started' = started \cup {t}
           /\ mainPc' = IF started' = Threads THEN "join" ELSE "start"
    /\ UNCHANGED <<sources, repo, pc, local, temps, result, joined, addonsXml,
                   catalog, output, infoIn, infoOut>>

\* A join loop that takes the publishers as their threads finish.
NextToJoinAsFinished == {t \in Threads \ joined : pc[t] = "done"}

\* The publisher the join loop of line 291 is at: the list is walked in the
\* order of args.addonPaths.
NextToJoin == {Min(Threads \ joined)}

\* A join loop that does not wait for the thread.
ThreadFinishedWithoutJoin(t) == TRUE

\* thread.join() returns, line 292.
ThreadFinished(t) == pc[t] = "done"

Line(text, t, exception) == [text |-> text, thread |-> t, exception |-> exception]

\* Lines 292-300 for one publisher.  A result with an exception is printed
\* and its xml, None, is appended all the same: Element.append raises
\* TypeError, which the except StopIteration does not catch.
JoinThread ==
    /\ mainPc = "join"
    /\ \E t \in NextToJoin :
         /\ ThreadFinished(t)
         /\ IF result[t] = <<>>
            THEN /\ output' = Append(output, Line("cannot", t, "none"))
                 /\ joined' = joined \cup {t}
                 /\ mainPc' = IF joined' = Threads THEN "write" ELSE "join"
                 /\ UNCHANGED addonsXml
            ELSE LET addonPublisherResult == Head(result[t])
                 IN  IF addonPublisherResult.exception # "none"
                     THEN /\ output' = output \o
                               << Line("cannot", t, "none"),
                                  Line("detail", t,
                                       addonPublisherResult.exception) >>
                          /\ mainPc' = "crashed"
                          /\ UNCHANGED <<joined, addonsXml>>
                     ELSE /\ addonsXml' =
                               Append(addonsXml, addonPublisherResult.xml)
                          /\ joined' = joined \cup {t}
                          /\ mainPc' = IF joined' = Threads THEN "write"
                                       ELSE "join"
                          /\ UNCHANGED output
    /\ UNCHANGED <<sources, repo, pc, local, temps, result, started, catalog,
                   infoIn, infoOut>>

\* Lines 302-307: addons.xml.gz is written.
WriteCatalog ==
    /\ mainPc = "write"
    /\ catalog' = [catalog EXCEPT !.there = TRUE,
                                  !.children = addonsXml,
                                  !.writes = @ + 1]
    /\ mainPc' = "md5"
    /\ UNCHANGED <<sources, repo, pc, local, temps, result, started, joined,
                   addonsXml, output, infoIn, infoOut>>

\* Line 309: addons.xml.gz.md5 is written.
WriteCatalogChecksum ==
    /\ mainPc = "md5"
    /\ catalog' = [catalog EXCEPT !.md5 = writeChecksumFile(catalog.children)]
    /\ mainPc' = "done"
    /\ UNCHANGED <<sources, repo, pc, local, temps, result, started, joined,
                   addonsXml, output, infoIn, infoOut>>

-----------------------------------------------------------------------------
(* The specification of a run *)

NoLocal(source) ==
    [addonId |-> <<>>, addonVersion |-> <<>>, zipDir |-> <<>>,
     zipName |-> source.zname, inRepo |-> FALSE, tempFolder |-> "none"]

NoCatalog ==
    [there |-> FALSE, children |-> <<>>, writes |-> 0, md5 |-> NoChecksum]

NoDescriptor == [id |-> NoAttr, version |-> NoAttr]

\* The state when the main program reaches line 287 with the given sources
\* and datadir.
InitRun(srcs, datadir) ==
    /\ sources = srcs
    /\ repo = datadir
    /\ pc = [t \in Threads |-> "begin"]
    /\ local = [t \in Threads |-> NoLocal(srcs[t])]
    /\ temps = {}
    /\ result = [t \in Threads |-> <<>>]
    /\ started = {}
    /\ mainPc = "start"
    /\ joined = {}
    /\ addonsXml = <<>>
    /\ catalog = NoCatalog
    /\ output = <<>>
    /\ infoIn = NoDescriptor
    /\ infoOut = NoInfo

Init ==
    \E srcs \in [Threads -> SourceKinds] :
        \E datadir \in RepoStates : InitRun(srcs, datadir)

Next ==
    \/ StartThread
    \/ JoinThread
    \/ WriteCatalog
    \/ WriteCatalogChecksum
    \/ \E t \in Threads : Fetch(t)

Spec == Init /\ [][Next]_vars

-----------------------------------------------------------------------------
(* fetch run again and again on one source, each run after the one before *)

InitSeq ==
    \E source \in SourceKinds :
        \E datadir \in RepoStates :
            InitRun([t \in Threads |-> source], datadir)

EarlierDone(t) == \A u \in 1..(t - 1) : pc[u] = "done"

NextSeq ==
    \/ StartThread
    \/ JoinThread
    \/ WriteCatalog
    \/ WriteCatalogChecksum
    \/ \E t \in Threads : EarlierDone(t) /\ Fetch(t)

SpecSeq == InitSeq /\ [][NextSeq]_vars

-----------------------------------------------------------------------------
(* A run on the sources with less usual layouts *)

InitOdd ==
    \E srcs \in [Threads -> OddSourceKinds] :
        \E datadir \in RepoStates : InitRun(srcs, datadir)

SpecOdd == InitOdd /\ [][Next]_vars

-----------------------------------------------------------------------------
(* A run on sources of different add-ons *)

\* The add-on ids getAddonInfo returns for a source, at line 155 for a folder
\* and at line 205 for an archive.
ResolvedIds(source) ==
    LET top == TopFile(Walk(source), AddonXml)
        at == FirstDescriptor(source.members)
        content == IF IsDir(source) THEN top
                   ELSE IF at = 0 THEN 0 ELSE source.members[at].content
        info == IF IsXml(content) THEN getAddonInfo(DocTable[content])
                ELSE NoInfo
    IN  IF info.ok THEN {info.id} ELSE {}

PairwiseDistinct(srcs) ==
    \A t, u \in Threads :
        t # u => ResolvedIds(srcs[t]) \cap ResolvedIds(srcs[u]) = {}

DistinctSourceKinds ==
    {DirA, UrlSource, ZipPlain, RootDir, DirBadVersion, NoSource}

InitDistinct ==
    \E srcs \in [Threads -> DistinctSourceKinds] :
        /\ PairwiseDistinct(srcs)
        /\ \E datadir \in RepoStates : InitRun(srcs, datadir)

SpecDistinct == InitDistinct /\ [][Next]_vars

-----------------------------------------------------------------------------
(* getAddonInfo on its own *)

IdAlphabet == {"a", "7", "-", "A", " "}
VersionAlphabet == {"1", ".", "b"}

AttrsUpTo(alphabet, n) == {NoAttr} \cup {Attr(s) : s \in SeqsUpTo(alphabet, n)}

\* The descriptors getAddonInfo is tried on: every id with a few versions,
\* and every version with a few ids.
InfoInputs ==
    {[id |-> i, version |-> v] :
        i \in AttrsUpTo(IdAlphabet, MaxIdLen),
        v \in {NoAttr, Attr(V100), Attr(V200 \o <<"b">>), Attr(<<"x">>)}}
    \cup
    {[id |-> i, version |-> v] :
        i \in {NoAttr, Attr(IdA), Attr(<<"A">>), Attr(<<>>)},
        v \in AttrsUpTo(VersionAlphabet, MaxVersionLen)}

InitInfo ==
    /\ infoIn \in InfoInputs
    /\ infoOut = NoInfo
    /\ sources = [t \in Threads |-> NoSource]
    /\ repo = EmptyRepo
    /\ pc = [t \in Threads |-> "begin"]
    /\ local = [t \in Threads |-> NoLocal(NoSource)]
    /\ temps = {}
    /\ result = [t \in Threads |-> <<>>]
    /\ started = {}
    /\ mainPc = "info"
    /\ joined = {}
    /\ addonsXml = <<>>
    /\ catalog = NoCatalog
    /\ output = <<>>

\* (addonId, addonVersion) = getAddonInfo(addonXmlPath), or the exception.
CallGetAddonInfo ==
    /\ mainPc = "info"
    /\ infoOut' = getAddonInfo(infoIn)
    /\ mainPc' = "infoDone"
    /\ UNCHANGED <<sources, repo, pc, local, temps, result, started, joined,
                   addonsXml, catalog, output, infoIn>>

NextInfo == CallGetAddonInfo

SpecInfo == InitInfo /\ [][NextInfo]_vars

-----------------------------------------------------------------------------
(* What the claims speak of *)

Succeeded(t) == result[t] # <<>> /\ Head(result[t]).exception = "none"
Failed(t) == result[t] # <<>> /\ Head(result[t]).exception # "none"

\* The descriptors of the successful sources among the given threads, in the
\* order the sources were submitted, from thread t on.
RECURSIVE SuccessfulXml(_, _)
SuccessfulXml(t, among) ==
    IF t > NumSources THEN <<>>
    ELSE (IF t \in among /\ Succeeded(t) THEN <<Head(result[t]).xml>> ELSE <<>>)
         \o SuccessfulXml(t + 1, among)

AllDigits(s, from, to) == \A i \in from..to : s[i] \in Digits

\* ^[a-z0-9._-]+$
MatchesIdPattern(attr) ==
    /\ attr.present
    /\ Len(attr.val) >= 1
    /\ \A i \in 1..Len(attr.val) : attr.val[i] \in IdChars

\* The ends of the prefixes of s that match \d+\.\d+\.\d+
VersionPrefixEnds(s) ==
    {k \in 1..Len(s) :
        \E i, j \in 1..Len(s) :
            /\ 1 < i /\ i + 1 < j /\ j < k
            /\ s[i] = "." /\ s[j] = "."
            /\ AllDigits(s, 1, i - 1)
            /\ AllDigits(s, i + 1, j - 1)
            /\ AllDigits(s, j + 1, k)}

\* ^\d+\.\d+\.\d+
BeginsWithVersion(attr) == attr.present /\ VersionPrefixEnds(attr.val) # {}

ValidDescriptor(doc) == MatchesIdPattern(doc.id) /\ BeginsWithVersion(doc.version)

-----------------------------------------------------------------------------
(* C1 *)

\* C1: a source whose pipeline ends with an error does not fail the run: the
\* main program never dies, prints a diagnostic for every failed source it
\* has joined, and once it is done the catalog and its checksum are written
\* and hold exactly the descriptors of the successful sources, in order.
C1_FailedSourceDoesNotFailRun ==
    /\ mainPc # "crashed"
    /\ \A t \in joined :
          Failed(t) => \E i \in 1..Len(output) :
                          output[i].text = "cannot" /\ output[i].thread = t
    /\ mainPc = "done" =>
          /\ joined = Threads
          /\ catalog.there /\ catalog.md5.there
          /\ catalog.children = SuccessfulXml(1, Threads)

-----------------------------------------------------------------------------
(* C2 *)

\* C2: every descriptor appended as a successful result matches the id
\* pattern and begins with a three-component version.
C2_PublishedDescriptorIsValid ==
    \A t \in Threads : \A i \in 1..Len(result[t]) :
        result[t][i].xml # 0 => ValidDescriptor(DocTable[result[t][i].xml])

-----------------------------------------------------------------------------
(* C3 *)

\* C3: whatever the order in which the threads finish, the children of the
\* catalog root are the descriptors of the joined successful sources in the
\* order the sources were submitted.
C3_CatalogInSubmissionOrder == addonsXml = SuccessfulXml(1, joined)

\* A later source has finished with a descriptor while the first is still
\* running, and the catalog root waits for the first.
C3_LaterSourceFinishedFirst ==
    /\ mainPc = "join" /\ joined = {}
    /\ pc[1] \notin {"begin", "done"}
    /\ pc[NumSources] = "done" /\ Succeeded(NumSources)
    /\ addonsXml = <<>>

-----------------------------------------------------------------------------
(* C4 *)

\* C4: addons.xml.gz is written at most once, the catalog and its checksum
\* are written only when every fetch thread has ended, and every thread is
\* started before the first join.
C4_CatalogAfterJoinBarrier ==
    /\ catalog.writes <= 1
    /\ (catalog.there \/ catalog.md5.there \/ mainPc \in {"write", "md5", "done"})
          => \A t \in Threads : pc[t] = "done"
    /\ (mainPc # "start" \/ joined # {}) => started = Threads

\* The catalog and its checksum are written, after a run with a source that
\* went through the whole of fetch.
C4_CatalogWritten ==
    /\ mainPc = "done" /\ catalog.writes = 1 /\ catalog.md5.there
    /\ \E t \in Threads : Succeeded(t)

-----------------------------------------------------------------------------
(* C5 *)

Max(S) == CHOOSE x \in S : \A y \in S : x >= y

\* C5: getAddonInfo accepts a descriptor exactly when its id is present and
\* matches ^[a-z0-9._-]+$ and its version is present and begins with
\* \d+\.\d+\.\d+; it then returns the id unchanged and the three-component
\* prefix of the version.
C5_AcceptsExactlyValidDescriptors ==
    mainPc = "infoDone" =>
        /\ infoOut.ok <=> ValidDescriptor(infoIn)
        /\ infoOut.ok =>
              /\ infoOut.id = infoIn.id.val
              /\ infoOut.version =
                    SubSeq(infoIn.version.val, 1,
                           Max(VersionPrefixEnds(infoIn.version.val)))

-----------------------------------------------------------------------------
(* C6 *)

\* C6: the copy step of an archive whose destination is not the source file
\* creates the identifier folder, copies the archive there and goes on to
\* the extraction, also when the destination does not exist yet; when the
\* two are one file it copies nothing.
C6_ArchiveCopiedUnlessSameFile ==
    [][\A t \in Threads :
          (pc[t] = "copy" /\ pc'[t] # "copy") =>
              LET addonId == local[t].addonId
                  name == local[t].zipName
              IN  /\ pc'[t] = "extract"
                  /\ IF SameFile(t)
                     THEN repo'[addonId].zips[name] = repo[addonId].zips[name]
                     ELSE /\ repo'[addonId].exists
                          /\ repo'[addonId].zips[name].there
                          /\ repo'[addonId].zips[name].members =
                                ArchiveAt(t).members]_vars

-----------------------------------------------------------------------------
(* C7 *)

\* C7: when a fetch thread has ended, none of the temporary folders it made
\* exists any more.
C7_NoTemporaryFolderLeft ==
    \A t \in Threads :
        pc[t] = "done" => \A which \in {"clone", "scratch"} : <<t, which>> \notin temps

-----------------------------------------------------------------------------
(* C8 *)

\* C8: when fetch runs again on the same folder after a first run, the
\* archive the first run built in its folder branch is not written again,
\* and a later run of the folder branch ends with the same successful result
\* as the first.
C8_SecondRunKeepsArchive ==
    /\ [][(pc[1] = "done" /\ local[1].inRepo) =>
             repo'[local[1].zipDir].zips[local[1].zipName] =
                 repo[local[1].zipDir].zips[local[1].zipName]]_vars
    /\ [](\A t \in Threads :
             ( /\ pc[1] = "done" /\ pc[t] = "done"
               /\ Succeeded(1)
               /\ local[1].inRepo /\ local[t].inRepo
               /\ repo[local[1].zipDir].zips[local[1].zipName].writes > 0 )
             => result[t] = result[1])

\* Every run on the local folder of add-on a has ended with its descriptor,
\* and the archive was written once.
C8_RanTwiceBuiltOnce ==
    /\ \A t \in Threads : sources[t] = DirA /\ pc[t] = "done" /\ Succeeded(t)
    /\ repo[IdA].zips[getNameVersionFileName(IdA, V100)].writes = 1

-----------------------------------------------------------------------------
(* C9 *)

\* C9: the changelog step leaves no changelog.txt in the identifier folder;
\* an unversioned changelog becomes changelog-{version}.txt with its content
\* when there was no such file, and is deleted with the versioned file left
\* as it was when there was one; no other versioned changelog appears.
C9_ChangelogVersioned ==
    [][\A t \in Threads :
          (pc[t] = "changelog" /\ pc'[t] # "changelog") =>
              LET before == repo[local[t].addonId]
                  after == repo'[local[t].addonId]
                  v == local[t].addonVersion
              IN  /\ after.aux[changelogFileName] = 0
                  /\ (before.aux[changelogFileName] # 0 /\ before.clog[v] = 0)
                        => after.clog[v] = before.aux[changelogFileName]
                  /\ before.clog[v] # 0 => after.clog[v] = before.clog[v]
                  /\ before.aux[changelogFileName] = 0
                        => after.clog[v] = before.clog[v]
                  /\ \A w \in AllVersions \ {v} :
                        after.clog[w] = before.clog[w]]_vars

\* A thread is past the changelog step of an archive that holds a
\* changelog.txt, in a folder that had a versioned changelog before the run:
\* the old versioned file is there and no changelog.txt is.
C9_DuplicateChangelogDeleted ==
    \E t \in Threads :
        /\ pc[t] = "checksum"
        /\ LET folder == repo[local[t].addonId]
           IN  /\ ExactMember(folder.zips[local[t].zipName].members,
                              local[t].addonId, changelogFileName) # 0
               /\ folder.clog[local[t].addonVersion] = 8
               /\ folder.aux[changelogFileName] = 0

-----------------------------------------------------------------------------
(* C10 *)

Range(seq) == {seq[i] : i \in 1..Len(seq)}

-----------------------------------------------------------------------------
(* C11 *)

\* C11: the extraction step puts an auxiliary file into the identifier
\* folder exactly when the archive has a member of exactly the path
\* {id}/{fileName}, with that member's content; a file without such a member
\* is skipped, also when some member path contains {id}/{fileName}, and the
\* pipeline goes on to the changelog step without an error.
C11_ExtractsExactMembersOnly ==
    [][\A t \in Threads :
          (pc[t] = "extract" /\ pc'[t] # "extract") =>
              LET addonId == local[t].addonId
                  members == repo[addonId].zips[local[t].zipName].members
              IN  /\ pc'[t] = "changelog"
                  /\ result'[t] = result[t]
                  /\ \A f \in AuxNames :
                        LET at == ExactMember(members, addonId, f)
                        IN  repo'[addonId].aux[f] =
                              IF at # 0 THEN members[at].content
                              ELSE repo[addonId].aux[f]]_vars

-----------------------------------------------------------------------------
(* C12 *)

\* C12: a pipeline that reaches the end of the archive branch without an
\* exception and finds no addon.xml in the identifier folder ends with an
\* empty result; joining a publisher whose result is empty prints one
\* cannot-include line naming that source and no error detail, appends
\* nothing to the catalog root, and the main program goes on with the next
\* publisher or with writing the catalog.
C12_NoResultIsNotAnError ==
    [][/\ \A t \in Threads :
             ( /\ pc[t] = "publish" /\ pc'[t] # "publish"
               /\ repo[local[t].addonId].aux[AddonXml] = 0 )
             => (pc'[t] = "done" /\ result[t] = <<>> /\ result'[t] = <<>>)
       /\ \A t \in Threads :
             ( /\ mainPc = "join"
               /\ <<mainPc, joined, output, addonsXml>>' #
                      <<mainPc, joined, output, addonsXml>>
               /\ t \in NextToJoin /\ result[t] = <<>> )
             => /\ output' = Append(output, Line("cannot", t, "none"))
                /\ addonsXml' = addonsXml
                /\ joined' = joined \cup {t}
                /\ mainPc' = IF joined' = Threads THEN "write" ELSE "join"]_vars

\* The archive with the nested descriptor went through the whole archive
\* branch and ended without a result; the main program printed the one line
\* for it and has written the catalog without it.
C12_ResultlessSourceLeftOut ==
    \E t \in Threads :
        /\ sources[t] = ZipNestedDescriptor
        /\ pc[t] = "done" /\ result[t] = <<>>
        /\ repo[IdA].md5[OtherZipName].of = ZipNestedDescriptor.members
        /\ mainPc = "done" /\ catalog.there
        /\ Len(catalog.children) = NumSources - 1
        /\ \E i \in 1..Len(output) : output[i] = Line("cannot", t, "none")
        /\ \A i \in 1..Len(output) : output[i].text # "detail"

-----------------------------------------------------------------------------
(* C13 *)

\* The folder below the clone's root that Url[#Branch][:Subpath] names: the
\* subpath as written (a separator in front of it names the same folder),
\* the root itself without a subpath.
SubpathFolder(subpath) ==
    IF ~subpath.present THEN <<>>
    ELSE IF subpath.val # <<>> /\ Head(subpath.val) = "/"
    THEN Tail(subpath.val)
    ELSE subpath.val

\* C13: once a remote reference is cloned (and its branch, if one is given,
\* checked out), fetch takes the folder Subpath of the clone for the add-on
\* folder, the clone's root when there is no subpath: it goes on with the
\* descriptor at the top of that folder, rejects the source when that
\* descriptor is missing or invalid, and takes the path for a file when the
\* clone has no such folder.
C13_SubpathAsWritten ==
    [][\A t \in Threads :
          ( /\ pc[t] = "begin" /\ pc'[t] # "begin"
            /\ sources[t].kind = "url"
            /\ \A i \in 1..Len(result'[t]) :
                  result'[t][i].exception # "GitCommandError" )
          =>
          LET folder == SubpathFolder(sources[t].subpath)
              files == IF folder = <<>> THEN sources[t].tree
                       ELSE FilesBelow(sources[t].tree, folder)
              content == TopFile(files, AddonXml)
              info == IF IsXml(content) THEN getAddonInfo(DocTable[content])
                      ELSE NoInfo
          IN  IF files = <<>> THEN pc'[t] = "archive"
              ELSE IF info.ok
              THEN /\ pc'[t] = "folder"
                   /\ local'[t].addonId = info.id
                   /\ local'[t].addonVersion = info.version
              ELSE pc'[t] = "done" /\ result'[t] # <<>>]_vars

-----------------------------------------------------------------------------
(* C14 *)

\* C14: when a pipeline has ended with a descriptor as its result, datadir
\* holds {id}/{id}-{version}.zip and the checksum file of that archive, id
\* and version being those of the descriptor (the version without what
\* follows its three components), whatever kind of source it came from and
\* whatever the file name of a source archive.
C14_VersionedArchivePublished ==
    \A t \in Threads :
        (pc[t] = "done" /\ Succeeded(t)) =>
            LET info == getAddonInfo(DocTable[Head(result[t]).xml])
                name == getNameVersionFileName(info.id, info.version)
            IN  info.ok =>
                    /\ repo[info.id].exists
                    /\ repo[info.id].zips[name].there
                    /\ repo[info.id].md5[name].there

-----------------------------------------------------------------------------
(* C15 *)

\* The ways fetch returns without an exception: the path is neither a folder
\* nor an archive, the archive branch found no addon.xml to publish, or it
\* removed the addon.xml it published.
ReturnsNormally(t) ==
    \/ pc[t] = "archive" /\ ~ArchiveAt(t).there
    \/ pc[t] = "publish" /\ repo[local[t].addonId].aux[AddonXml] = 0
    \/ pc[t] = "remove" /\ repo[local[t].addonId].aux[AddonXml] # 0

\* C15: a step of fetch that ends its thread other than by returning appends
\* one result carrying the exception to the thread's own result list; no
\* step of one thread changes where another thread is, what it holds or
\* what it has recorded, nor which threads are started or where the main
\* program is; and the main program stops for nothing before every thread
\* is started.
C15_ExceptionStaysInItsPipeline ==
    [][/\ \A t \in Threads :
             pc'[t] # pc[t] =>
                 /\ (pc'[t] = "done" /\ ~ReturnsNormally(t)) =>
                        /\ Len(result'[t]) = Len(result[t]) + 1
                        /\ result'[t][Len(result'[t])].xml = 0
                        /\ result'[t][Len(result'[t])].exception # "none"
                        /\ SubSeq(result'[t], 1, Len(result[t])) = result[t]
                 /\ \A u \in Threads \ {t} :
                        /\ pc'[u] = pc[u]
                        /\ local'[u] = local[u]
                        /\ result'[u] = result[u]
                 /\ started' = started
                 /\ mainPc' = mainPc
       /\ started' # Threads => mainPc' = "start"]_vars

\* One pipeline has ended with an exception as its result while a sibling
\* started after it went through the whole of fetch and ended with its
\* descriptor.
C15_SiblingFinishedAfterFailure ==
    \E t, u \in Threads :
        /\ t < u
        /\ pc[t] = "done" /\ Failed(t)
        /\ pc[u] = "done" /\ Succeeded(u)
        /\ started = Threads

-----------------------------------------------------------------------------
(* C16 *)

\* C16: whatever the interleaving, and also when two sources have the same
\* add-on id, a pipeline has appended at most one result, and a result
\* carries either a descriptor or an exception, never both and never
\* neither; so no result list holds a descriptor followed by an exception.
C16_AtMostOneOutcome ==
    \A t \in Threads :
        /\ Len(result[t]) <= 1
        /\ \A i \in 1..Len(result[t]) :
              (result[t][i].xml # 0) # (result[t][i].exception # "none")

-----------------------------------------------------------------------------
(* C17 *)

\* datadir as it was before the run: the versioned changelog of the earlier
\* run of add-on a tells the two apart.
InitialRepo == IF repo[IdA].clog[V100] = 8 THEN OldRepo ELSE EmptyRepo

\* The sources fetched one after the other in the order of submission, from
\* source t on: datadir and every result list afterwards.
RECURSIVE RunInOrder(_, _, _)
RunInOrder(t, datadir, nets) ==
    IF t > NumSources THEN [repo |-> datadir, result |-> <<>>]
    ELSE LET one == FetchAlone(sources[t], datadir, nets[t])
             rest == RunInOrder(t + 1, one.repo, nets)
         IN  [repo |-> rest.repo, result |-> <<one.result>> \o rest.result]

\* How the clones of the run may end, one outcome for each source.
NetOutcomes ==
    {nets \in [Threads -> {"cloned", "clone fails", "checkout fails"}] :
        \A t \in Threads :
            IF sources[t].kind = "url" THEN nets[t] \in CloneOutcomes(sources[t])
            ELSE nets[t] = "cloned"}

AllFetched == \A t \in Threads : pc[t] = "done"

\* C17: for sources of pairwise different add-on ids, when every pipeline
\* has ended, datadir and the result of every pipeline are what fetching the
\* sources one after the other leaves, whatever the interleaving was (for
\* the way the clones ended).  InitialRepo is datadir as the run found it.
C17_SameInEveryInterleaving ==
    [][/\ InitialRepo' = InitialRepo
       /\ started = {} => repo = InitialRepo
       /\ AllFetched' =>
             \E nets \in NetOutcomes :
                 LET inOrder == RunInOrder(1, InitialRepo, nets)
                 IN  repo' = inOrder.repo /\ result' = inOrder.result]_vars

\* Every pipeline has ended, one with the descriptor of add-on a and one
\* with that of add-on b, and datadir holds the archives of both.
C17_BothPublishedSideBySide ==
    /\ AllFetched
    /\ \E t, u \in Threads :
          /\ Succeeded(t) /\ local[t].addonId = IdA
          /\ Succeeded(u) /\ local[u].addonId = IdB
    /\ repo[IdA].zips[getNameVersionFileName(IdA, V100)].there
    /\ repo[IdB].zips[getNameVersionFileName(IdB, V200)].there

-----------------------------------------------------------------------------
(* C18 *)

\* The pipeline has ended with the error of a missing descriptor (IOError
\* for a folder, StopIteration for an archive) or of an invalid one
\* (RuntimeError).
RejectedDescriptor(t) ==
    /\ pc[t] = "done"
    /\ result[t] # <<>>
    /\ Head(result[t]).exception \in {"IOError", "StopIteration", "RuntimeError"}

\* C18: a pipeline that ends with the error of a missing or invalid
\* descriptor has created and changed nothing in datadir: as long as the
\* only pipelines that have taken a step are such pipelines, datadir is as
\* it was before the run.
C18_RejectedSourceLeavesDatadir ==
    (\A t \in Threads : pc[t] = "begin" \/ RejectedDescriptor(t))
        => repo = InitialRepo

====
